---- MODULE Spec2Model ----
(***************************************************************************)
(* Ledger engine of erik404/blockchain: Blockchain (chain, accounts,       *)
(* mempool, difficulty), Block mining, calculate_block_hash and the        *)
(* transaction validation of src/core/blockchain.rs.                       *)
(*                                                                         *)
(* Strings are sequences of one-character strings, so that format!()       *)
(* concatenation, decimal formatting and starts_with are computed, not     *)
(* assumed.  Balances are unsigned integers of a reduced width (U64Max     *)
(* stands for u64::MAX).  SHA-256 is an external primitive: it is modelled *)
(* as a deterministic, collision-free digest whose leading hex digits are  *)
(* a pseudo-random mix of the input (see Sha256).                          *)
(*                                                                         *)
(* Specifications: Spec (mempool.push and add_block), SpecTamper (also     *)
(* direct writes to stored blocks), SpecForge (also a nonce stored with    *)
(* its hash), SpecInsert (also accounts.insert), SpecMine (Block::new as a *)
(* loop, one iteration per step), SpecValidate (the transaction            *)
(* validation on its own), SpecNew (Blockchain::new over configurations),  *)
(* SpecToken (Token::new and format_amount), SpecPass (mempool.push of     *)
(* transfers from and to an address that never holds anything, add_block), *)
(* SpecMalformed (mempool.push of malformed transactions, add_block),      *)
(* SpecHash (calculate_block_hash on two tuples of fields), SpecRemine     *)
(* (Block::mine called again on a mined block).                            *)
(***************************************************************************)
EXTENDS Integers, Sequences, FiniteSets, TLC

VARIABLES chain, accounts, mempool, difficulty, token, tampered, ev, call

vars == <<chain, accounts, mempool, difficulty, token, tampered, ev, call>>

(***************************************************************************)
(* Bounds of the model.                                                    *)
(***************************************************************************)
U64Max == 15
MaxMempool == 2
MaxChain == 3
\* the nonce is a u64 of its own reduced width: NonceMax stands for u64::MAX there
NonceMax == 63

(***************************************************************************)
(* Characters and strings.                                                 *)
(***************************************************************************)
Alphabet ==
    <<"0", "1", "2", "3", "4", "5", "6", "7", "8", "9",
      "a", "b", "c", "d", "e", "f", "A", "B", "C", "G", "T", "X">>

Chars == {Alphabet[i] : i \in 1..Len(Alphabet)}

\* the position of a character in the alphabet
CodeOf == [c \in Chars |-> CHOOSE i \in 1..Len(Alphabet) : Alphabet[i] = c]

Code(c) == CodeOf[c]

HexDigit(n) == Alphabet[n + 1]

\* format!("{}", n) for an unsigned integer: its decimal digits
RECURSIVE Dec(_)
Dec(n) == IF n < 10 THEN <<HexDigit(n)>> ELSE Dec(n \div 10) \o <<HexDigit(n % 10)>>

\* str::starts_with
StartsWith(s, p) == Len(p) <= Len(s) /\ SubSeq(s, 1, Len(p)) = p

\* "0".repeat(n)
Repeat0(n) == [i \in 1..n |-> "0"]

(***************************************************************************)
(* Token                                                                   *)
(***************************************************************************)
\* the arithmetic of Token is u64 arithmetic, here of 8 bits: TokenU64Max stands
\* for u64::MAX (10^2 fits, 10^3 wraps to a non-zero value as 10^20 does, 10^8
\* wraps to 0 as 10^64 does)
TokenU64Max == 2^8 - 1

\* 10^d as an integer
RECURSIVE Pow10(_)
Pow10(d) == IF d = 0 THEN 1 ELSE 10 * Pow10(d - 1)

\* 10u64.pow(decimals as u32) overflows
pow_overflows(decimals) == Pow10(decimals) > TokenU64Max

\* 10u64.pow(decimals as u32) where overflow is not checked: the product wraps
pow_wrapping(decimals) == Pow10(decimals) % (TokenU64Max + 1)

\* Token::new when it returns (name and symbol are carried along unchanged and
\* left out)
Token_new(decimals, total_supply) ==
    [decimals |-> decimals,
     smallest_unit |-> pow_wrapping(decimals),
     total_supply |-> total_supply]

\* format!("{:0width$}", n, width = w): the decimal digits of n, zeros put in
\* front up to the minimum width w
PadZero(n, w) ==
    IF Len(Dec(n)) >= w THEN Dec(n) ELSE Repeat0(w - Len(Dec(n))) \o Dec(n)

\* format_amount without the zero padding of the fractional part
format_amount_unpadded(tok, amount) ==
    LET whole == amount \div tok.smallest_unit
        fractional == amount % tok.smallest_unit
    IN  Dec(whole) \o <<".">> \o Dec(fractional)

\* Token::format_amount, for a smallest_unit other than 0
format_amount(tok, amount) ==
    LET whole == amount \div tok.smallest_unit
        fractional == amount % tok.smallest_unit
    IN  Dec(whole) \o <<".">> \o PadZero(fractional, tok.decimals)

(***************************************************************************)
(* Transaction                                                             *)
(***************************************************************************)
Transaction(s, r, a) == [sender |-> s, receiver |-> r, amount |-> a]

\* Transaction::stringify with the receiver ahead of the sender
stringify_receiver_first(tx) == tx.receiver \o tx.sender \o Dec(tx.amount)

\* Transaction::stringify
stringify(tx) == tx.sender \o tx.receiver \o Dec(tx.amount)

\* calculate_hash::transactions_string
RECURSIVE transactions_string(_)
transactions_string(txs) ==
    IF txs = <<>> THEN <<>>
    ELSE stringify(Head(txs)) \o transactions_string(Tail(txs))

(***************************************************************************)
(* Hashing                                                                 *)
(***************************************************************************)
\* the string handed to the hasher without the nonce
hash_input_without_nonce(index, timestamp, txs, previous_hash, nonce) ==
    Dec(index) \o timestamp \o transactions_string(txs) \o previous_hash

\* the string handed to the hasher
hash_input(index, timestamp, txs, previous_hash, nonce) ==
    Dec(index) \o timestamp \o transactions_string(txs) \o previous_hash \o Dec(nonce)

\* 27^k modulo 256, by repeated squaring
Pow27[k \in Nat] ==
    IF k = 0 THEN 1
    ELSE IF k % 2 = 1 THEN (27 * Pow27[k - 1]) % 256
    ELSE (Pow27[k \div 2] * Pow27[k \div 2]) % 256

\* a rolling mix of the characters of s into a byte: h becomes
\* (h * 27 + Code(c)) % 256 with each character c, from 0; the characters
\* s[r[1]..r[2]] are mixed by halves
MixFold(s) ==
    LET mix[r \in Nat \X Nat] ==
            IF r[1] > r[2] THEN 0
            ELSE IF r[1] = r[2] THEN Code(s[r[1]])
            ELSE (mix[<<r[1], (r[1] + r[2]) \div 2>>] * Pow27[r[2] - (r[1] + r[2]) \div 2]
                  + mix[<<(r[1] + r[2]) \div 2 + 1, r[2]>>]) % 256
    IN  mix[<<1, Len(s)>>]

\* hex::encode(Sha256(input)): two pseudo-random hex digits followed by a part
\* that identifies the input (no two inputs share a digest)
Sha256(input) ==
    LET h == MixFold(input)
    IN  <<HexDigit(h % 16), HexDigit(h \div 16)>> \o input

calculate_block_hash(index, timestamp, txs, previous_hash, nonce) ==
    Sha256(hash_input(index, timestamp, txs, previous_hash, nonce))

(***************************************************************************)
(* Block                                                                   *)
(***************************************************************************)
\* mine with the nonce advanced once more after the last hash was taken
RECURSIVE mine_nonce_past_hash(_, _)
mine_nonce_past_hash(block, d) ==
    IF StartsWith(block.hash, Repeat0(d)) THEN [block EXCEPT !.nonce = block.nonce + 1]
    ELSE mine_nonce_past_hash(
             [block EXCEPT
                 !.nonce = block.nonce + 1,
                 !.hash = calculate_block_hash(block.index, block.timestamp,
                              block.transactions, block.previous_hash, block.nonce + 1)],
             d)

\* the body of mine's loop with the hash taken before the nonce is advanced
mine_step_stale_hash(block) ==
    [block EXCEPT
        !.nonce = (block.nonce + 1) % (NonceMax + 1),
        !.hash = calculate_block_hash(block.index, block.timestamp,
                     block.transactions, block.previous_hash, block.nonce)]

\* the body of mine's loop without the advance of the nonce
mine_step_same_nonce(block) ==
    [block EXCEPT
        !.hash = calculate_block_hash(block.index, block.timestamp,
                     block.transactions, block.previous_hash, block.nonce)]

\* the body of mine's loop counting the nonce down
mine_step_counts_down(block) ==
    [block EXCEPT
        !.nonce = (block.nonce - 1) % (NonceMax + 1),
        !.hash = calculate_block_hash(block.index, block.timestamp,
                     block.transactions, block.previous_hash,
                     (block.nonce - 1) % (NonceMax + 1))]

\* the body of mine's loop reading the clock again for every attempt
mine_step_new_timestamp(block) ==
    [block EXCEPT
        !.nonce = (block.nonce + 1) % (NonceMax + 1),
        !.timestamp = <<"2", "T">>,
        !.hash = calculate_block_hash(block.index, <<"2", "T">>,
                     block.transactions, block.previous_hash,
                     (block.nonce + 1) % (NonceMax + 1))]

\* the body of mine's loop advancing the nonce by two
mine_step_skips_nonce(block) ==
    [block EXCEPT
        !.nonce = (block.nonce + 2) % (NonceMax + 1),
        !.hash = calculate_block_hash(block.index, block.timestamp,
                     block.transactions, block.previous_hash,
                     (block.nonce + 2) % (NonceMax + 1))]

\* the body of mine's loop: self.nonce += 1 (wrapping, as in a release build) and
\* the hash recomputed with the new nonce
mine_step(block) ==
    LET nonce == (block.nonce + 1) % (NonceMax + 1)
    IN  [block EXCEPT
            !.nonce = nonce,
            !.hash = calculate_block_hash(block.index, block.timestamp,
                         block.transactions, block.previous_hash, nonce)]

\* Block::mine: advance the nonce until the hash starts with the target
RECURSIVE mine(_, _)
mine(block, d) ==
    IF StartsWith(block.hash, Repeat0(d)) THEN block
    ELSE mine(mine_step(block), d)

\* Block::new up to the call of mine: nonce 0 and the hash of the fields with it;
\* now is the value Utc::now().to_rfc3339() returned
Block_new_before_mine(index, txs, previous_hash, now) ==
    [index |-> index,
     timestamp |-> now,
     transactions |-> txs,
     previous_hash |-> previous_hash,
     hash |-> calculate_block_hash(index, now, txs, previous_hash, 0),
     nonce |-> 0]

\* Block::new
Block_new(index, txs, previous_hash, d, now) ==
    mine(Block_new_before_mine(index, txs, previous_hash, now), d)

(***************************************************************************)
(* Blockchain                                                              *)
(***************************************************************************)
\* HashMap::entry(k).or_insert(0), as far as the map is concerned
or_insert0(m, k) == IF k \in DOMAIN m THEN m ELSE m @@ (k :> 0)

\* validate_transaction_with_temp_balances without the checked_add of the
\* receiver's balance: the credit wraps
validate_without_overflow_check(tx, temp) ==
    IF tx.sender = <<>> \/ tx.receiver = <<>>
      THEN [res |-> "AddressCannotBeEmpty", detail |-> <<>>, temp |-> temp]
    ELSE IF tx.sender = tx.receiver
      THEN [res |-> "SenderAndReceiverCannotBeTheSame", detail |-> <<>>, temp |-> temp]
    ELSE IF tx.amount = 0
      THEN [res |-> "AmountMustBeGreaterThanZero", detail |-> <<>>, temp |-> temp]
    ELSE
      LET t1 == or_insert0(temp, tx.receiver)
      IN  IF tx.sender \notin DOMAIN t1
            THEN [res |-> "SenderDoesNotExist", detail |-> [sender |-> tx.sender],
                  temp |-> t1]
          ELSE IF t1[tx.sender] < tx.amount
            THEN [res |-> "InsufficientBalance",
                  detail |-> [sender |-> tx.sender, requested |-> tx.amount,
                              available |-> t1[tx.sender]],
                  temp |-> t1]
          ELSE
            LET t2 == [t1 EXCEPT ![tx.sender] = @ - tx.amount]
            IN  [res |-> "Ok", detail |-> <<>>,
                 temp |-> [t2 EXCEPT ![tx.receiver] = (@ + tx.amount) % (U64Max + 1)]]

\* validate_transaction_with_temp_balances with the test of the sender's entry and
\* balance ahead of the test of the receiver's overflow
validate_sender_before_overflow(tx, temp) ==
    IF tx.sender = <<>> \/ tx.receiver = <<>>
      THEN [res |-> "AddressCannotBeEmpty", detail |-> <<>>, temp |-> temp]
    ELSE IF tx.sender = tx.receiver
      THEN [res |-> "SenderAndReceiverCannotBeTheSame", detail |-> <<>>, temp |-> temp]
    ELSE IF tx.amount = 0
      THEN [res |-> "AmountMustBeGreaterThanZero", detail |-> <<>>, temp |-> temp]
    ELSE
      LET t1 == or_insert0(temp, tx.receiver)
          receiver_balance == t1[tx.receiver]
      IN  IF tx.sender \notin DOMAIN t1
            THEN [res |-> "SenderDoesNotExist", detail |-> [sender |-> tx.sender],
                  temp |-> t1]
          ELSE IF t1[tx.sender] < tx.amount
            THEN [res |-> "InsufficientBalance",
                  detail |-> [sender |-> tx.sender, requested |-> tx.amount,
                              available |-> t1[tx.sender]],
                  temp |-> t1]
          ELSE IF receiver_balance + tx.amount > U64Max
            THEN [res |-> "BalanceOverflow", detail |-> <<>>, temp |-> t1]
          ELSE
            LET t2 == [t1 EXCEPT ![tx.sender] = @ - tx.amount]
            IN  [res |-> "Ok", detail |-> <<>>,
                 temp |-> [t2 EXCEPT ![tx.receiver] = @ + tx.amount]]

\* validate_transaction_with_temp_balances with the two updates of a successful
\* validation and the amount test parameterised, for the variants below: the
\* amount taken from the sender's projected balance, the amount added to the
\* receiver's, and the least amount that is let through
validate_variant(tx, temp, debit, credit, min_amount) ==
    IF tx.sender = <<>> \/ tx.receiver = <<>>
      THEN [res |-> "AddressCannotBeEmpty", detail |-> <<>>, temp |-> temp]
    ELSE IF tx.sender = tx.receiver
      THEN [res |-> "SenderAndReceiverCannotBeTheSame", detail |-> <<>>, temp |-> temp]
    ELSE IF tx.amount < min_amount
      THEN [res |-> "AmountMustBeGreaterThanZero", detail |-> <<>>, temp |-> temp]
    ELSE
      LET t1 == or_insert0(temp, tx.receiver)
          receiver_balance == t1[tx.receiver]
      IN  IF receiver_balance + tx.amount > U64Max
            THEN [res |-> "BalanceOverflow", detail |-> <<>>, temp |-> t1]
          ELSE IF tx.sender \notin DOMAIN t1
            THEN [res |-> "SenderDoesNotExist", detail |-> [sender |-> tx.sender],
                  temp |-> t1]
          ELSE IF t1[tx.sender] < tx.amount
            THEN [res |-> "InsufficientBalance",
                  detail |-> [sender |-> tx.sender, requested |-> tx.amount,
                              available |-> t1[tx.sender]],
                  temp |-> t1]
          ELSE
            LET t2 == [t1 EXCEPT ![tx.sender] = @ - debit]
            IN  [res |-> "Ok", detail |-> <<>>,
                 temp |-> [t2 EXCEPT ![tx.receiver] = @ + credit]]

\* validate_transaction_with_temp_balances without the credit of the receiver
validate_without_credit(tx, temp) == validate_variant(tx, temp, tx.amount, 0, 1)

\* validate_transaction_with_temp_balances without the debit of the sender
validate_without_debit(tx, temp) == validate_variant(tx, temp, 0, tx.amount, 1)

\* validate_transaction_with_temp_balances without the test of the amount
validate_without_amount_check(tx, temp) == validate_variant(tx, temp, tx.amount, tx.amount, 0)

\* validate_transaction_with_temp_balances: the result (Ok or the kind of the
\* TransactionError and its fields) and the projection it leaves
validate_transaction_with_temp_balances(tx, temp) ==
    IF tx.sender = <<>> \/ tx.receiver = <<>>
      THEN [res |-> "AddressCannotBeEmpty", detail |-> <<>>, temp |-> temp]
    ELSE IF tx.sender = tx.receiver
      THEN [res |-> "SenderAndReceiverCannotBeTheSame", detail |-> <<>>, temp |-> temp]
    ELSE IF tx.amount = 0
      THEN [res |-> "AmountMustBeGreaterThanZero", detail |-> <<>>, temp |-> temp]
    ELSE
      LET t1 == or_insert0(temp, tx.receiver)
          receiver_balance == t1[tx.receiver]
      IN  IF receiver_balance + tx.amount > U64Max
            THEN [res |-> "BalanceOverflow", detail |-> <<>>, temp |-> t1]
          ELSE IF tx.sender \notin DOMAIN t1
            THEN [res |-> "SenderDoesNotExist", detail |-> [sender |-> tx.sender],
                  temp |-> t1]
          ELSE IF t1[tx.sender] < tx.amount
            THEN [res |-> "InsufficientBalance",
                  detail |-> [sender |-> tx.sender, requested |-> tx.amount,
                              available |-> t1[tx.sender]],
                  temp |-> t1]
          ELSE
            LET t2 == [t1 EXCEPT ![tx.sender] = @ - tx.amount]
            IN  [res |-> "Ok", detail |-> <<>>,
                 temp |-> [t2 EXCEPT ![tx.receiver] = @ + tx.amount]]

\* process_loop validating every transaction against the projection it started with
RECURSIVE process_loop_fixed_projection(_, _, _)
process_loop_fixed_projection(pool, valid, temp) ==
    IF pool = <<>> THEN [valid |-> valid, temp |-> temp]
    ELSE LET v == validate_transaction_with_temp_balances(Head(pool), temp)
         IN  IF v.res = "Ok"
               THEN process_loop_fixed_projection(Tail(pool), Append(valid, Head(pool)), temp)
               ELSE process_loop_fixed_projection(Tail(pool), valid, temp)

\* the loop of process_mempool over the transactions pool, from the state
\* (valid_transactions, temp_balances) = (valid, temp)
RECURSIVE process_loop(_, _, _)
process_loop(pool, valid, temp) ==
    IF pool = <<>> THEN [valid |-> valid, temp |-> temp]
    ELSE LET v == validate_transaction_with_temp_balances(Head(pool), temp)
         IN  IF v.res = "Ok"
               THEN process_loop(Tail(pool), Append(valid, Head(pool)), v.temp)
               ELSE process_loop(Tail(pool), valid, v.temp)

\* process_mempool clearing the mempool only when it accepted a transaction
process_mempool_clear_on_success(accts, pool) ==
    [valid_transactions |-> process_loop(pool, <<>>, accts).valid,
     mempool |-> IF process_loop(pool, <<>>, accts).valid = <<>> THEN pool ELSE <<>>]

\* process_mempool: the accepted batch it returns and the mempool it leaves
process_mempool(accts, pool) ==
    [valid_transactions |-> process_loop(pool, <<>>, accts).valid, mempool |-> <<>>]

\* execute_transactions' iteration without the debit of the sender
execute_one_credit_only(accts, tx) ==
    LET a1 == or_insert0(or_insert0(accts, tx.sender), tx.receiver)
    IN  [a1 EXCEPT ![tx.receiver] = (@ + tx.amount) % (U64Max + 1)]

\* execute_transactions' iteration without the credit of the receiver
execute_one_debit_only(accts, tx) ==
    LET a1 == or_insert0(or_insert0(accts, tx.sender), tx.receiver)
    IN  [a1 EXCEPT ![tx.sender] = (@ - tx.amount) % (U64Max + 1)]

\* one iteration of execute_transactions; u64 arithmetic wraps (release build)
execute_one(accts, tx) ==
    LET a1 == or_insert0(accts, tx.sender)
        a2 == [a1 EXCEPT ![tx.sender] = (@ - tx.amount) % (U64Max + 1)]
        a3 == or_insert0(a2, tx.receiver)
    IN  [a3 EXCEPT ![tx.receiver] = (@ + tx.amount) % (U64Max + 1)]

\* execute_transactions applying the first transaction of the batch only
execute_transactions_first_only(accts, txs) ==
    IF txs = <<>> THEN accts ELSE execute_one(accts, Head(txs))

RECURSIVE execute_transactions(_, _)
execute_transactions(accts, txs) ==
    IF txs = <<>> THEN accts
    ELSE execute_transactions(execute_one(accts, Head(txs)), Tail(txs))

\* TRUE iff some -= or += of execute_transactions leaves the u64 range
\* (a panic in a debug build)
RECURSIVE execute_overflows(_, _)
execute_overflows(accts, txs) ==
    IF txs = <<>> THEN FALSE
    ELSE LET tx == Head(txs)
             a1 == or_insert0(accts, tx.sender)
             a2 == [a1 EXCEPT ![tx.sender] = (@ - tx.amount) % (U64Max + 1)]
             a3 == or_insert0(a2, tx.receiver)
         IN  \/ a1[tx.sender] < tx.amount
             \/ a3[tx.receiver] + tx.amount > U64Max
             \/ execute_overflows(execute_one(accts, tx), Tail(txs))

\* is_valid's loop testing the proof-of-work prefix of the stored hash in place of
\* the recomputation of the hash
RECURSIVE is_valid_from_prefix_only(_, _)
is_valid_from_prefix_only(c, i) ==
    IF i > Len(c) THEN TRUE
    ELSE IF c[i].previous_hash # c[i - 1].hash THEN FALSE
    ELSE IF ~StartsWith(c[i].hash, Repeat0(difficulty)) THEN FALSE
    ELSE is_valid_from_prefix_only(c, i + 1)

\* is_valid's loop reduced to the test of the last block of the chain
is_valid_from_last_only(c, i) ==
    IF Len(c) < 2 THEN TRUE
    ELSE /\ c[Len(c)].previous_hash = c[Len(c) - 1].hash
         /\ c[Len(c)].hash = calculate_block_hash(c[Len(c)].index, c[Len(c)].timestamp,
                                 c[Len(c)].transactions, c[Len(c)].previous_hash,
                                 c[Len(c)].nonce)

\* is_valid's loop without the recomputation of the block hash
RECURSIVE is_valid_from_links_only(_, _)
is_valid_from_links_only(c, i) ==
    IF i > Len(c) THEN TRUE
    ELSE IF c[i].previous_hash # c[i - 1].hash THEN FALSE
    ELSE is_valid_from_links_only(c, i + 1)

\* is_valid's loop without the comparison of previous_hash with the preceding hash
RECURSIVE is_valid_from_hashes_only(_, _)
is_valid_from_hashes_only(c, i) ==
    IF i > Len(c) THEN TRUE
    ELSE IF c[i].hash # calculate_block_hash(c[i].index, c[i].timestamp,
                            c[i].transactions, c[i].previous_hash, c[i].nonce)
      THEN FALSE
    ELSE is_valid_from_hashes_only(c, i + 1)

\* the loop of is_valid from position i of the chain (the code's index i - 1), with
\* its early returns
RECURSIVE is_valid_from(_, _)
is_valid_from(c, i) ==
    IF i > Len(c) THEN TRUE
    ELSE LET current_block == c[i]
             previous_block == c[i - 1]
         IN  IF current_block.previous_hash # previous_block.hash THEN FALSE
             ELSE IF current_block.hash #
                       calculate_block_hash(current_block.index, current_block.timestamp,
                           current_block.transactions, current_block.previous_hash,
                           current_block.nonce)
               THEN FALSE
             ELSE is_valid_from(c, i + 1)

\* Blockchain::is_valid (chain position 2 is the code's index 1)
is_valid(c) == is_valid_from(c, 2)

\* the closure of get_transaction_history's filter
involves(tx, address) == tx.sender = address \/ tx.receiver = address

\* the transactions of the blocks c[i..Len(c)] that pass the filter, block after
\* block (flat_map over chain.iter())
RECURSIVE history_from(_, _, _)
history_from(c, i, address) ==
    IF i > Len(c) THEN <<>>
    ELSE SelectSeq(c[i].transactions, LAMBDA tx : involves(tx, address))
           \o history_from(c, i + 1, address)

\* get_transaction_history matching the address against the sender only
RECURSIVE history_from_sender_only(_, _, _)
history_from_sender_only(c, i, address) ==
    IF i > Len(c) THEN <<>>
    ELSE SelectSeq(c[i].transactions, LAMBDA tx : tx.sender = address)
           \o history_from_sender_only(c, i + 1, address)

get_transaction_history_sender_only(c, address) == history_from_sender_only(c, 1, address)

\* Blockchain::get_transaction_history
get_transaction_history(c, address) == history_from(c, 1, address)

(***************************************************************************)
(* Inputs: configuration, clock readings, submitted transactions           *)
(***************************************************************************)
GenesisMiner == <<"A">>
GenesisHash == <<"G">>
Difficulties == {1}
TotalSupplies == {3}
PreMined == {3, 4}
\* clock readings (Utc::now().to_rfc3339()); the ledger is constructed at StartTime
StartTime == <<"1", "T">>
Timestamps == {StartTime, <<"2", "T">>}

Configs ==
    [total_supply : TotalSupplies, genesis_pre_mined : PreMined,
     genesis_miner : {GenesisMiner}, genesis_hash : {GenesisHash},
     difficulty : Difficulties]

\* transactions callers push into the mempool
TxPool ==
    { Transaction(<<"A">>, <<"B">>, 2),
      Transaction(<<"B">>, <<"C">>, 1),
      Transaction(<<"A">>, <<"C">>, U64Max) }

\* Blockchain::new refusing also a pre-mined amount equal to the total supply
Blockchain_new_rejects_equal(config, now) ==
    IF config.total_supply <= config.genesis_pre_mined
      THEN [ok |-> FALSE, err |-> "ERR_TOTAL_SUPPLY_LESS_THAN_PRE_MINED"]
      ELSE [ok |-> TRUE,
            chain |-> <<Block_new(0, <<>>, config.genesis_hash, config.difficulty, now)>>,
            accounts |-> (config.genesis_miner :> config.genesis_pre_mined),
            token |-> [total_supply |-> config.total_supply],
            mempool |-> <<>>,
            difficulty |-> config.difficulty]

\* Blockchain::new with the two String fields of the configuration exchanged
Blockchain_new_swapped_strings(config, now) ==
    IF config.total_supply < config.genesis_pre_mined
      THEN [ok |-> FALSE, err |-> "ERR_TOTAL_SUPPLY_LESS_THAN_PRE_MINED"]
      ELSE [ok |-> TRUE,
            chain |-> <<Block_new(0, <<>>, config.genesis_miner, config.difficulty, now)>>,
            accounts |-> (config.genesis_hash :> config.genesis_pre_mined),
            token |-> [total_supply |-> config.total_supply],
            mempool |-> <<>>,
            difficulty |-> config.difficulty]

\* Blockchain::new
Blockchain_new(config, now) ==
    IF config.total_supply < config.genesis_pre_mined
      THEN [ok |-> FALSE, err |-> "ERR_TOTAL_SUPPLY_LESS_THAN_PRE_MINED"]
      ELSE [ok |-> TRUE,
            chain |-> <<Block_new(0, <<>>, config.genesis_hash, config.difficulty, now)>>,
            accounts |-> (config.genesis_miner :> config.genesis_pre_mined),
            token |-> [total_supply |-> config.total_supply],
            mempool |-> <<>>,
            difficulty |-> config.difficulty]

\* ev records the last operation: its kind, the mempool add_block processed, the
\* batch it accepted and the branch it took; the block and field a caller overwrote
\* and the value that was stored there
NoEvent ==
    [op |-> "new", pool |-> <<>>, batch |-> <<>>, outcome |-> "none",
     idx |-> 0, field |-> "none", old |-> <<>>]

\* call holds a call made outside a ledger operation (its arguments, its position
\* and its result); no such call is in progress in the ledger specifications
NoCall == [op |-> "none"]

\* the ledger Blockchain::new returned at StartTime
InitLedger ==
    \E config \in Configs :
        LET r == Blockchain_new(config, StartTime)
        IN  /\ r.ok
            /\ chain = r.chain
            /\ accounts = r.accounts
            /\ token = r.token
            /\ mempool = r.mempool
            /\ difficulty = r.difficulty
            /\ tampered = FALSE
            /\ ev = NoEvent

Init == InitLedger /\ call = NoCall

(***************************************************************************)
(* Operations                                                              *)
(***************************************************************************)
\* blockchain.mempool.push(tx)
Submit ==
    \E tx \in TxPool :
        /\ Len(mempool) < MaxMempool
        /\ mempool' = Append(mempool, tx)
        /\ ev' = [NoEvent EXCEPT !.op = "submit"]
        /\ UNCHANGED <<chain, accounts, difficulty, token, tampered, call>>

\* add_block with its steps parameterised, for the variants below: the accounts
\* left by a rollback, the chain left by a rollback, the accounts committed,
\* whether an empty batch returns early, the index after the last block's, the
\* transactions the new block is mined over and the hash it is chained to
add_block_variant(now, rollback_accounts(_), rollback_chain(_), commit(_), early_return,
                  next_index(_), mined(_), link(_)) ==
    LET processed == process_mempool(accounts, mempool)
        valid_transactions == processed.valid_transactions
        last_block == chain[Len(chain)]
        new_block == Block_new(next_index(last_block.index), mined(valid_transactions),
                               link(last_block), difficulty, now)
        pushed == Append(chain, new_block)
    IN  IF valid_transactions = <<>> /\ early_return
          THEN [chain |-> chain, accounts |-> accounts, mempool |-> processed.mempool,
                outcome |-> "no_block", batch |-> valid_transactions]
        ELSE IF ~is_valid(pushed)
          THEN [chain |-> rollback_chain(pushed),
                accounts |-> rollback_accounts(valid_transactions),
                mempool |-> processed.mempool,
                outcome |-> "rolled_back", batch |-> valid_transactions]
        ELSE [chain |-> pushed, accounts |-> commit(valid_transactions),
              mempool |-> processed.mempool,
              outcome |-> IF execute_overflows(accounts, valid_transactions)
                            THEN "panic" ELSE "committed",
              batch |-> valid_transactions]

Executed(txs) == execute_transactions(accounts, txs)
Untouched(txs) == accounts
Projected(txs) == process_loop(mempool, <<>>, accounts).temp
Popped(pushed) == SubSeq(pushed, 1, Len(pushed) - 1)
NotPopped(pushed) == pushed
IndexPlusOne(i) == i + 1
SameIndex(i) == i
Batch(txs) == txs
RECURSIVE Reversed(_)
Reversed(txs) == IF txs = <<>> THEN <<>> ELSE Append(Reversed(Tail(txs)), Head(txs))
LastHash(last_block) == last_block.hash
FirstHash(last_block) == chain[1].hash

\* add_block executing the batch before the chain is re-verified
add_block_commit_before_verify(now) ==
    add_block_variant(now, Executed, Popped, Executed, TRUE, IndexPlusOne, Batch, LastHash)

\* add_block committing the projection process_mempool validated against
add_block_commit_projection(now) ==
    add_block_variant(now, Untouched, Popped, Projected, TRUE, IndexPlusOne, Batch, LastHash)

\* add_block whose rollback leaves the new block in the chain
add_block_rollback_without_pop(now) ==
    add_block_variant(now, Untouched, NotPopped, Executed, TRUE, IndexPlusOne, Batch, LastHash)

\* add_block mining a block also for an empty batch
add_block_mines_empty_batch(now) ==
    add_block_variant(now, Untouched, Popped, Executed, FALSE, IndexPlusOne, Batch, LastHash)

\* add_block mining the new block over the accepted batch in reverse order
add_block_mines_reversed_batch(now) ==
    add_block_variant(now, Untouched, Popped, Executed, TRUE, IndexPlusOne, Reversed,
                      LastHash)

\* add_block chaining the new block to the hash of the first block
add_block_links_to_first(now) ==
    add_block_variant(now, Untouched, Popped, Executed, TRUE, IndexPlusOne, Batch,
                      FirstHash)

\* add_block giving the new block the index of the last block
add_block_reuses_index(now) ==
    add_block_variant(now, Untouched, Popped, Executed, TRUE, SameIndex, Batch, LastHash)

\* Blockchain::add_block when the clock reads now: the chain, the accounts and the
\* mempool it leaves, the batch process_mempool returned and the branch taken
add_block(now) ==
    LET processed == process_mempool(accounts, mempool)
        valid_transactions == processed.valid_transactions
        last_block == chain[Len(chain)]
        new_block_index == last_block.index + 1
        new_block == Block_new(new_block_index, valid_transactions,
                               last_block.hash, difficulty, now)
        pushed == Append(chain, new_block)
    IN  IF valid_transactions = <<>>
          THEN [chain |-> chain, accounts |-> accounts, mempool |-> processed.mempool,
                outcome |-> "no_block", batch |-> valid_transactions]
        ELSE IF ~is_valid(pushed)
          THEN [chain |-> SubSeq(pushed, 1, Len(pushed) - 1), accounts |-> accounts,
                mempool |-> processed.mempool,
                outcome |-> "rolled_back", batch |-> valid_transactions]
        ELSE [chain |-> pushed,
              accounts |-> execute_transactions(accounts, valid_transactions),
              mempool |-> processed.mempool,
              outcome |-> IF execute_overflows(accounts, valid_transactions)
                            THEN "panic" ELSE "committed",
              batch |-> valid_transactions]

\* blockchain.add_block(), while the chain stays within MaxChain blocks
AddBlock ==
    \E now \in Timestamps :
        \E r \in {add_block(now)} :
            /\ Len(r.chain) <= MaxChain
            /\ chain' = r.chain
            /\ accounts' = r.accounts
            /\ mempool' = r.mempool
            /\ ev' = [NoEvent EXCEPT !.op = "add_block", !.pool = mempool,
                        !.batch = r.batch, !.outcome = r.outcome]
            /\ UNCHANGED <<difficulty, token, tampered, call>>

\* values a caller writes into the public fields of a stored block
TamperValues(field) ==
    CASE field = "timestamp" -> Timestamps
      [] field = "previous_hash" -> {<<"X">>}
      [] field = "hash" -> {<<"X">>}
      [] field = "transactions" ->
             {<<>>, <<Transaction(<<"A", "B">>, <<>>, 2)>>}

\* blockchain.chain[i - 1].<field> = value, for a value different from the stored
\* one; the stored blocks of a ledger are overwritten at most once.  The write
\* and mempool.push touch different fields and commute, so the write is taken
\* while the mempool is empty.
Tamper ==
    \E i \in 1..Len(chain), field \in {"timestamp", "previous_hash", "hash", "transactions"} :
        \E value \in TamperValues(field) :
            /\ ~tampered
            /\ mempool = <<>>
            /\ value # chain[i][field]
            /\ chain' = [chain EXCEPT ![i][field] = value]
            /\ tampered' = TRUE
            /\ ev' = [NoEvent EXCEPT !.op = "tamper", !.idx = i, !.field = field,
                        !.old = chain[i][field]]
            /\ UNCHANGED <<accounts, mempool, difficulty, token, call>>

\* nonces a caller writes into a stored block
ForgeNonces == 0..2

\* blockchain.chain[i - 1].nonce = nonce, followed by
\* blockchain.chain[i - 1].hash = calculate_block_hash(<the block's fields>): the
\* caller stores a nonce of its choice with the hash that belongs to it, without
\* mining.  Like Tamper, taken at most once and while the mempool is empty.
Forge ==
    \E i \in 1..Len(chain), nonce \in ForgeNonces :
        /\ ~tampered
        /\ mempool = <<>>
        /\ nonce # chain[i].nonce
        /\ chain' = [chain EXCEPT
                        ![i].nonce = nonce,
                        ![i].hash = calculate_block_hash(chain[i].index,
                                        chain[i].timestamp, chain[i].transactions,
                                        chain[i].previous_hash, nonce)]
        /\ tampered' = TRUE
        /\ ev' = [NoEvent EXCEPT !.op = "forge", !.idx = i, !.field = "nonce",
                    !.old = chain[i].hash]
        /\ UNCHANGED <<accounts, mempool, difficulty, token, call>>

(***************************************************************************)
(* Block::new as a process: the loop of Block::mine, one iteration per step *)
(***************************************************************************)
\* arguments of Block::new: difficulty 65 is longer than a SHA-256 hex digest
MineIndexes == 0..MaxChain
MineBatches ==
    { <<>>,
      <<Transaction(<<"A">>, <<"B">>, 2)>>,
      <<Transaction(<<"A">>, <<"B">>, 2), Transaction(<<"B">>, <<"C">>, 1)>> }
MinePreviousHashes == {GenesisHash, <<"0", "X">>}
MineDifficulties == {0, 1, 65}

\* no Blockchain has been constructed: Block::new is called on its own
NoLedger ==
    /\ chain = <<>>
    /\ accounts = <<>>
    /\ mempool = <<>>
    /\ difficulty = 0
    /\ token = [total_supply |-> 0]
    /\ tampered = FALSE
    /\ ev = NoEvent

\* Block::new was called and is about to enter mine
InitMine ==
    /\ NoLedger
    /\ \E index \in MineIndexes, txs \in MineBatches, previous_hash \in MinePreviousHashes,
          d \in MineDifficulties, now \in Timestamps :
            call = [op |-> "Block::new", pc |-> "mining", difficulty |-> d,
                    args |-> [index |-> index, transactions |-> txs,
                              previous_hash |-> previous_hash, now |-> now],
                    block |-> Block_new_before_mine(index, txs, previous_hash, now)]

\* mine's loop is entered: the hash does not start with the target
MineStep ==
    /\ call.op = "Block::new" /\ call.pc = "mining"
    /\ ~StartsWith(call.block.hash, Repeat0(call.difficulty))
    /\ call' = [call EXCEPT !.block = mine_step(call.block)]
    /\ UNCHANGED <<chain, accounts, mempool, difficulty, token, tampered, ev>>

\* self.nonce += 1 at u64::MAX in a build with overflow checks: the call panics
MinePanic ==
    /\ call.op = "Block::new" /\ call.pc = "mining"
    /\ ~StartsWith(call.block.hash, Repeat0(call.difficulty))
    /\ call.block.nonce = NonceMax
    /\ call' = [call EXCEPT !.pc = "panic"]
    /\ UNCHANGED <<chain, accounts, mempool, difficulty, token, tampered, ev>>

\* the hash starts with the target: mine returns and Block::new returns the block
MineReturn ==
    /\ call.op = "Block::new" /\ call.pc = "mining"
    /\ StartsWith(call.block.hash, Repeat0(call.difficulty))
    /\ call' = [call EXCEPT !.pc = "done"]
    /\ UNCHANGED <<chain, accounts, mempool, difficulty, token, tampered, ev>>

NextMine == MineStep \/ MinePanic \/ MineReturn

\* the thread in Block::new keeps running: single-threaded, nothing preempts it
SpecMine ==
    InitMine /\ [][NextMine]_vars /\ WF_vars(MineStep) /\ WF_vars(MineReturn)

(***************************************************************************)
(* Block::mine called again on a mined block                               *)
(***************************************************************************)
\* the difficulty the block was mined at and the difficulties mine is called with
MinedDifficulty == 1
RemineDifficulties == {1, 2, 65}

\* the blocks Block::new returns at MinedDifficulty: the nonce is the first of
\* 0, 1, 2, ... whose hash starts with the target
MinedBlocks ==
    { [index |-> index, timestamp |-> now, transactions |-> txs,
       previous_hash |-> previous_hash, nonce |-> n,
       hash |-> calculate_block_hash(index, now, txs, previous_hash, n)] :
        index \in MineIndexes, now \in Timestamps, txs \in MineBatches,
        previous_hash \in MinePreviousHashes, n \in 0..NonceMax }

IsMined(block) ==
    /\ StartsWith(block.hash, Repeat0(MinedDifficulty))
    /\ \A n \in 0..(block.nonce - 1) :
          ~StartsWith(calculate_block_hash(block.index, block.timestamp,
                          block.transactions, block.previous_hash, n),
                      Repeat0(MinedDifficulty))

\* block.mine(d) is called on a mined block whose hash field, as stored or after
\* block.hash = "", does not start with the target; start keeps the nonce and
\* the hash the block had
InitRemine ==
    /\ NoLedger
    /\ \E block \in MinedBlocks, d \in RemineDifficulties :
        \E hash \in {<<>>, block.hash} :
          /\ IsMined(block)
          /\ ~StartsWith(hash, Repeat0(d))
          /\ call = [op |-> "mine", pc |-> "mining", difficulty |-> d,
                     start |-> [nonce |-> block.nonce, hash |-> block.hash],
                     block |-> [block EXCEPT !.hash = hash]]

\* mine's loop is entered: the hash does not start with the target
RemineStep ==
    /\ call.op = "mine" /\ call.pc = "mining"
    /\ ~StartsWith(call.block.hash, Repeat0(call.difficulty))
    /\ call' = [call EXCEPT !.block = mine_step(call.block)]
    /\ UNCHANGED <<chain, accounts, mempool, difficulty, token, tampered, ev>>

\* self.nonce += 1 at u64::MAX in a build with overflow checks: the call panics
ReminePanic ==
    /\ call.op = "mine" /\ call.pc = "mining"
    /\ ~StartsWith(call.block.hash, Repeat0(call.difficulty))
    /\ call.block.nonce = NonceMax
    /\ call' = [call EXCEPT !.pc = "panic"]
    /\ UNCHANGED <<chain, accounts, mempool, difficulty, token, tampered, ev>>

\* the hash starts with the target: mine returns
RemineReturn ==
    /\ call.op = "mine" /\ call.pc = "mining"
    /\ StartsWith(call.block.hash, Repeat0(call.difficulty))
    /\ call' = [call EXCEPT !.pc = "done"]
    /\ UNCHANGED <<chain, accounts, mempool, difficulty, token, tampered, ev>>

NextRemine == RemineStep \/ ReminePanic \/ RemineReturn

\* the thread in mine keeps running: single-threaded, nothing preempts it
SpecRemine ==
    InitRemine /\ [][NextRemine]_vars /\ WF_vars(RemineStep) /\ WF_vars(RemineReturn)

(***************************************************************************)
(* validate_transaction_with_temp_balances called on its own               *)
(***************************************************************************)
\* transactions, well-formed or not, and projections handed to the validation
ValidateAddresses == {<<>>, <<"A">>, <<"B">>}
ValidateAmounts == {0, 1, U64Max}
ValidateTxs ==
    {Transaction(s, r, a) : s \in ValidateAddresses, r \in ValidateAddresses,
                            a \in ValidateAmounts}
ValidateTemps ==
    { <<>>,
      (<<"A">> :> 1),
      (<<"A">> :> U64Max),
      (<<"B">> :> 1),
      (<<"A">> :> 1) @@ (<<"B">> :> 1),
      (<<"A">> :> 0) @@ (<<"B">> :> U64Max) }

\* process_mempool is about to validate tx against temp_balances = temp
InitValidate ==
    /\ InitLedger
    /\ \E tx \in ValidateTxs, temp \in ValidateTemps :
          call = [op |-> "validate", pc |-> "called", tx |-> tx, temp |-> temp,
                  out |-> <<>>]

\* the validation runs and returns
Validate ==
    /\ call.op = "validate" /\ call.pc = "called"
    /\ call' = [call EXCEPT
                   !.pc = "returned",
                   !.out = validate_transaction_with_temp_balances(call.tx, call.temp)]
    /\ UNCHANGED <<chain, accounts, mempool, difficulty, token, tampered, ev>>

NextValidate == Validate

SpecValidate == InitValidate /\ [][NextValidate]_vars

(***************************************************************************)
(* The ledger with balances written by the caller                          *)
(***************************************************************************)
\* balances near u64::MAX a caller inserts for an address that has no entry yet
InsertedAddresses == {<<"C">>}
InsertedBalances == {U64Max - 1, U64Max}

\* blockchain.accounts.insert(address, balance), on the ledger as constructed
InsertAccount ==
    \E address \in InsertedAddresses, balance \in InsertedBalances :
        /\ Len(chain) = 1 /\ mempool = <<>>
        /\ address \notin DOMAIN accounts
        /\ accounts' = accounts @@ (address :> balance)
        /\ ev' = [NoEvent EXCEPT !.op = "insert"]
        /\ UNCHANGED <<chain, mempool, difficulty, token, tampered, call>>

NextInsert == Submit \/ AddBlock \/ InsertAccount

SpecInsert == Init /\ [][NextInsert]_vars

(***************************************************************************)
(* The ledger with malformed transactions in the mempool                   *)
(***************************************************************************)
\* transactions callers push into the mempool: one that A can afford, and one for
\* each of the tests on the transaction's own fields (empty sender, empty
\* receiver, sender = receiver, amount 0)
MalformedTxPool ==
    { Transaction(<<"A">>, <<"B">>, 1),
      Transaction(<<>>, <<"B">>, 1),
      Transaction(<<"A">>, <<>>, 1),
      Transaction(<<"A">>, <<"A">>, 1),
      Transaction(<<"A">>, <<"B">>, 0) }

\* blockchain.mempool.push(tx)
SubmitMalformed ==
    \E tx \in MalformedTxPool :
        /\ Len(mempool) < MaxMempool
        /\ mempool' = Append(mempool, tx)
        /\ ev' = [NoEvent EXCEPT !.op = "submit"]
        /\ UNCHANGED <<chain, accounts, difficulty, token, tampered, call>>

NextMalformed == SubmitMalformed \/ AddBlock

SpecMalformed == Init /\ [][NextMalformed]_vars

(***************************************************************************)
(* The ledger with transactions of senders that hold nothing               *)
(***************************************************************************)
\* transactions callers push into the mempool: D never holds anything, and is
\* named as receiver by a transfer that A can never afford
PassTxPool ==
    { Transaction(<<"A">>, <<"B">>, 2),
      Transaction(<<"B">>, <<"C">>, 1),
      Transaction(<<"A">>, <<"D">>, U64Max),
      Transaction(<<"D">>, <<"A">>, 1) }

\* blockchain.mempool.push(tx)
SubmitPass ==
    \E tx \in PassTxPool :
        /\ Len(mempool) < MaxMempool
        /\ mempool' = Append(mempool, tx)
        /\ ev' = [NoEvent EXCEPT !.op = "submit"]
        /\ UNCHANGED <<chain, accounts, difficulty, token, tampered, call>>

NextPass == SubmitPass \/ AddBlock

SpecPass == Init /\ [][NextPass]_vars

(***************************************************************************)
(* Blockchain::new over the configurations                                 *)
(***************************************************************************)
NewConfigs ==
    [total_supply : {0, 1, 3, U64Max}, genesis_pre_mined : {0, 1, 3, 4, U64Max},
     genesis_miner : {<<"A">>, <<"B">>}, genesis_hash : {GenesisHash, <<"X">>},
     difficulty : {0, 1}]

\* Blockchain::new(config) is called; no ledger exists yet
InitNew ==
    /\ NoLedger
    /\ \E config \in NewConfigs :
          call = [op |-> "Blockchain::new", pc |-> "called", config |-> config,
                  result |-> <<>>]

\* Blockchain::new returns Err(..) and nothing else, or Ok(ledger)
New ==
    /\ call.op = "Blockchain::new" /\ call.pc = "called"
    /\ \E now \in Timestamps :
         \E r \in {Blockchain_new(call.config, now)} :
            IF r.ok
              THEN /\ chain' = r.chain
                   /\ accounts' = r.accounts
                   /\ token' = r.token
                   /\ mempool' = r.mempool
                   /\ difficulty' = r.difficulty
                   /\ call' = [call EXCEPT !.pc = "returned",
                                             !.result = [ok |-> TRUE, err |-> ""]]
                   /\ UNCHANGED <<tampered, ev>>
              ELSE /\ call' = [call EXCEPT !.pc = "returned",
                                             !.result = [ok |-> FALSE, err |-> r.err]]
                   /\ UNCHANGED <<chain, accounts, mempool, difficulty, token,
                                   tampered, ev>>

NextNew == New

SpecNew == InitNew /\ [][NextNew]_vars

(***************************************************************************)
(* Token::new and Token::format_amount called on their own                 *)
(***************************************************************************)
TokenDecimals == 0..8
TokenSupplies == {21}
FormatAmounts == {0, 1, 7, 9, 10, 42, 99, 100, 105, 232, 233, TokenU64Max}

\* Token::new(name, symbol, decimals, total_supply) is called
InitToken ==
    /\ NoLedger
    /\ \E decimals \in TokenDecimals, total_supply \in TokenSupplies :
          call = [op |-> "Token", pc |-> "called", decimals |-> decimals,
                  total_supply |-> total_supply, tok |-> <<>>, amount |-> 0,
                  out |-> <<>>]

\* Token::new returns: the power fits, or the build does not check overflow
TokenNew ==
    /\ call.op = "Token" /\ call.pc = "called"
    /\ call' = [call EXCEPT !.pc = "constructed",
                              !.tok = Token_new(call.decimals, call.total_supply)]
    /\ UNCHANGED <<chain, accounts, mempool, difficulty, token, tampered, ev>>

\* 10u64.pow overflows in a build with overflow checks: Token::new panics
TokenNewPanic ==
    /\ call.op = "Token" /\ call.pc = "called"
    /\ pow_overflows(call.decimals)
    /\ call' = [call EXCEPT !.pc = "panic"]
    /\ UNCHANGED <<chain, accounts, mempool, difficulty, token, tampered, ev>>

\* token.format_amount(amount): the division panics when smallest_unit is 0
FormatAmount ==
    /\ call.op = "Token" /\ call.pc = "constructed"
    /\ \E amount \in FormatAmounts :
          call' = IF call.tok.smallest_unit = 0
                    THEN [call EXCEPT !.pc = "format_panic", !.amount = amount]
                    ELSE [call EXCEPT !.pc = "formatted", !.amount = amount,
                                      !.out = format_amount(call.tok, amount)]
    /\ UNCHANGED <<chain, accounts, mempool, difficulty, token, tampered, ev>>

NextToken == TokenNew \/ TokenNewPanic \/ FormatAmount

SpecToken == InitToken /\ [][NextToken]_vars

(***************************************************************************)
(* calculate_block_hash called on two blocks' fields                       *)
(***************************************************************************)
\* the fields handed to calculate_block_hash; addresses, timestamps and
\* previous_hash are arbitrary strings, index and nonce arbitrary integers
HashIndexes == {1, 11}
HashTimestamps == {<<"T">>, <<"1", "T">>}
HashBatches ==
    { <<>>,
      <<Transaction(<<"A">>, <<"B">>, 1)>>,
      <<Transaction(<<"A">>, <<"B">>, 10)>>,
      <<Transaction(<<"A">>, <<"B", "C">>, 1)>>,
      <<Transaction(<<"A", "B">>, <<"C">>, 1)>>,
      <<Transaction(<<"A">>, <<"B">>, 1), Transaction(<<"B">>, <<"C">>, 1)>>,
      <<Transaction(<<"B">>, <<"C">>, 1), Transaction(<<"A">>, <<"B">>, 1)>> }
HashPreviousHashes == {<<"X">>, <<"0", "X">>}
HashNonces == {0, 10}

HashTuples ==
    [index : HashIndexes, timestamp : HashTimestamps, transactions : HashBatches,
     previous_hash : HashPreviousHashes, nonce : HashNonces]

\* calculate_block_hash is about to be called on the fields a and on the fields b
InitHash ==
    /\ NoLedger
    /\ \E a \in HashTuples, b \in HashTuples :
          call = [op |-> "calculate_block_hash", pc |-> "called", a |-> a, b |-> b,
                  input_a |-> <<>>, input_b |-> <<>>, hash_a |-> <<>>, hash_b |-> <<>>]

\* both calls return; input_a and input_b are the strings they handed to the hasher
Hash ==
    /\ call.op = "calculate_block_hash" /\ call.pc = "called"
    /\ call' = [call EXCEPT
                   !.pc = "returned",
                   !.input_a = hash_input(call.a.index, call.a.timestamp,
                                  call.a.transactions, call.a.previous_hash, call.a.nonce),
                   !.input_b = hash_input(call.b.index, call.b.timestamp,
                                  call.b.transactions, call.b.previous_hash, call.b.nonce),
                   !.hash_a = calculate_block_hash(call.a.index, call.a.timestamp,
                                  call.a.transactions, call.a.previous_hash, call.a.nonce),
                   !.hash_b = calculate_block_hash(call.b.index, call.b.timestamp,
                                  call.b.transactions, call.b.previous_hash, call.b.nonce)]
    /\ UNCHANGED <<chain, accounts, mempool, difficulty, token, tampered, ev>>

NextHash == Hash

SpecHash == InitHash /\ [][NextHash]_vars

Next == Submit \/ AddBlock

Spec == Init /\ [][Next]_vars

NextTamper == Submit \/ AddBlock \/ Tamper

SpecTamper == Init /\ [][NextTamper]_vars

NextForge == Submit \/ AddBlock \/ Tamper \/ Forge

SpecForge == Init /\ [][NextForge]_vars

(***************************************************************************)
(* Vocabulary of the properties                                            *)
(***************************************************************************)
\* the balance of address a in the table m, 0 when a has no entry
Balance(m, a) == IF a \in DOMAIN m THEN m[a] ELSE 0

\* the table m after the transfer tx: sender debited, receiver credited
Transfer(m, tx) ==
    [a \in DOMAIN m \cup {tx.sender, tx.receiver} |->
        Balance(m, a) - (IF a = tx.sender THEN tx.amount ELSE 0)
                      + (IF a = tx.receiver THEN tx.amount ELSE 0)]

\* the table m after the transfers txs, in order
RECURSIVE TransferAll(_, _)
TransferAll(m, txs) ==
    IF txs = <<>> THEN m ELSE TransferAll(Transfer(m, Head(txs)), Tail(txs))

\* tx is admissible against the projection proj
Admissible(tx, proj) ==
    /\ tx.sender # <<>> /\ tx.receiver # <<>>
    /\ tx.sender # tx.receiver
    /\ tx.amount > 0
    /\ Balance(proj, tx.receiver) + tx.amount <= U64Max
    /\ tx.sender \in DOMAIN proj
    /\ proj[tx.sender] >= tx.amount

\* the greedy batch: each transaction of pool, in order, is taken iff it is
\* admissible against the projection updated by the transactions taken before it
RECURSIVE GreedyBatch(_, _)
GreedyBatch(proj, pool) ==
    IF pool = <<>> THEN <<>>
    ELSE IF Admissible(Head(pool), proj)
      THEN <<Head(pool)>> \o GreedyBatch(Transfer(proj, Head(pool)), Tail(pool))
      ELSE GreedyBatch(proj, Tail(pool))

RECURSIVE SumOver(_, _)
SumOver(m, S) ==
    IF S = {} THEN 0
    ELSE LET a == CHOOSE x \in S : TRUE IN m[a] + SumOver(m, S \ {a})

\* the sum of all balances of the table m
SumBalances(m) == SumOver(m, DOMAIN m)

\* the step is a call of add_block
AddBlockStep == ev'.op = "add_block"

\* the step appended a block that stayed in the chain
Appended == Len(chain') = Len(chain) + 1 /\ SubSeq(chain', 1, Len(chain)) = chain

LastBlock(c) == c[Len(c)]

(***************************************************************************)
(* Claims                                                                  *)
(***************************************************************************)

\* C1: without direct mutation of stored blocks, is_valid() is true in every state:
\* for the genesis-only ledger, after every add_block, and at the call add_block
\* itself makes on the chain with the new block (it never has to roll back).
C1_ChainAlwaysValid ==
    /\ is_valid(chain)
    /\ ev.op = "add_block" => ev.outcome # "rolled_back"

C1_Witness ==
    /\ ev.op = "add_block" /\ ev.outcome = "committed"
    /\ Len(chain) = 3 /\ is_valid(chain)

\* C2: add_block is all-or-nothing: either the chain is one block longer and the
\* accounts are the old accounts with the accepted batch applied in order, or the
\* chain and the accounts are both as before.
C2_AllOrNothing ==
    [][AddBlockStep =>
         \/ Appended /\ accounts' = TransferAll(accounts, ev'.batch)
         \/ chain' = chain /\ accounts' = accounts]_vars

C2_Witness ==
    /\ ev.op = "add_block" /\ ev.outcome = "committed"
    /\ Len(ev.batch) = 2 /\ tampered

\* C3: the batch add_block mines is the greedy batch of the mempool, in submission
\* order, against one running projection of the committed balances.
C3_GreedyInOrder ==
    [][AddBlockStep => ev'.batch = GreedyBatch(accounts, mempool)]_vars

\* two transfers of the same sender, each affordable alone, not both: first only
C3_Witness ==
    /\ ev.op = "add_block"
    /\ Len(ev.pool) = 2 /\ ev.pool[1] = ev.pool[2]
    /\ ev.batch = <<ev.pool[1]>>

\* the transactions of the block the step appended, none when it appended none
StoredByStep == IF Len(chain') > Len(chain) THEN LastBlock(chain').transactions ELSE <<>>

\* C4: a transaction rejected by process_mempool is not stored and has no effect on
\* the committed accounts: the appended block holds exactly the admissible
\* transactions, the earlier blocks are untouched, and the accounts after add_block
\* are the accounts before it with the stored transactions applied (no other
\* balance changes, no other entry is created).
C4_RejectedHaveNoEffect ==
    [][AddBlockStep =>
         /\ SubSeq(chain', 1, Len(chain)) = chain
         /\ Len(chain') > Len(chain) => StoredByStep = GreedyBatch(accounts, mempool)
         /\ accounts' = TransferAll(accounts, StoredByStep)]_vars

\* a transfer of more than the sender owns, to an address without entry, was
\* rejected while a later transfer was committed
C4_Witness ==
    /\ ev.op = "add_block" /\ ev.outcome = "committed"
    /\ Len(ev.pool) = 2 /\ ev.pool[1].amount = U64Max
    /\ ev.batch = <<ev.pool[2]>>
    /\ ev.pool[1].receiver \notin DOMAIN accounts

RECURSIVE IsSubsequence(_, _)
IsSubsequence(a, b) ==
    IF a = <<>> THEN TRUE
    ELSE IF b = <<>> THEN FALSE
    ELSE IF Head(a) = Head(b) THEN IsSubsequence(Tail(a), Tail(b))
    ELSE IsSubsequence(a, Tail(b))

\* C5: after every add_block the mempool is empty, whatever the outcome; a block
\* holds only transactions of the mempool its own add_block call processed, so
\* transactions dropped by an earlier call are in no later block.
C5_MempoolDrained ==
    [][AddBlockStep =>
         /\ mempool' = <<>>
         /\ IsSubsequence(StoredByStep, mempool)]_vars

\* admissible transactions were lost in a rollback
C5_Witness ==
    /\ ev.op = "add_block" /\ ev.outcome = "rolled_back"
    /\ Len(ev.pool) = 2 /\ Len(ev.batch) = 2
    /\ mempool = <<>>

\* C6: when the chain is invalid after add_block appended the new block (a stored
\* field of an earlier block was corrupted), add_block removes that block again:
\* chain and accounts are as before the call, and the call does not panic.
C6_Rollback ==
    [][AddBlockStep =>
         /\ ev'.outcome # "panic"
         /\ ~is_valid(chain) /\ GreedyBatch(accounts, mempool) # <<>>
              => ev'.outcome = "rolled_back"
         /\ ev'.outcome = "rolled_back" => chain' = chain /\ accounts' = accounts]_vars

C6_Witness ==
    /\ ev.op = "add_block" /\ ev.outcome = "rolled_back"
    /\ Len(chain) = 3 /\ ~is_valid(chain)

\* C7: if the mempool is empty or none of its transactions validates, add_block
\* creates no block: chain and accounts are unchanged and the mempool is empty.
C7_NoBlockWithoutTransactions ==
    [][AddBlockStep /\ (\A i \in 1..Len(mempool) : ~Admissible(mempool[i], accounts)) =>
         /\ chain' = chain
         /\ accounts' = accounts
         /\ mempool' = <<>>]_vars

C7_Witness ==
    /\ ev.op = "add_block" /\ ev.outcome = "no_block"
    /\ ev.pool # <<>> /\ ev.batch = <<>>
    /\ Len(chain) >= 2

\* C8: the sum of all account balances never exceeds the token's total supply.
C8_SupplyBound == SumBalances(accounts) <= token.total_supply

C8_Witness ==
    /\ ev.op = "add_block" /\ ev.outcome = "committed"
    /\ Cardinality(DOMAIN accounts) = 3
    /\ SumBalances(accounts) = token.total_supply

\* a caller has just overwritten field f of the block at chain position i of an
\* untampered ledger holding at least one committed block
JustTampered(i, f) ==
    /\ ev.op = "tamper" /\ ev.idx = i /\ ev.field = f
    /\ Len(chain) >= 2

\* C9 as stated: changing the timestamp, previous_hash or transactions of any
\* committed block, genesis included, to a different value makes is_valid() false.
C9_AnyChangeDetected ==
    \A i \in 1..Len(chain) : \A f \in {"timestamp", "previous_hash", "transactions"} :
        JustTampered(i, f) => ~is_valid(chain)

\* C9 amended: changing the timestamp or previous_hash of a block other than the
\* genesis block to a different value, or its transactions to a list with a
\* different concatenated canonical string, makes is_valid() false.
C9_NonGenesisChangeDetected ==
    \A i \in 2..Len(chain) :
        /\ JustTampered(i, "timestamp") => ~is_valid(chain)
        /\ JustTampered(i, "previous_hash") => ~is_valid(chain)
        /\ JustTampered(i, "transactions")
             /\ transactions_string(chain[i].transactions) # transactions_string(ev.old)
             => ~is_valid(chain)

\* the timestamp of a block in the middle of the chain was changed
C9_Witness ==
    /\ Len(chain) = 3
    /\ JustTampered(2, "timestamp")
    /\ ~is_valid(chain)

\* block i of chain c is linked to its predecessor and carries the hash of its
\* own stored fields
BlockIntact(c, i) ==
    /\ c[i].previous_hash = c[i - 1].hash
    /\ c[i].hash = calculate_block_hash(c[i].index, c[i].timestamp, c[i].transactions,
                                        c[i].previous_hash, c[i].nonce)

\* chain c with the genesis block's own fields replaced; its hash is kept
WithGenesis(c, ts, prev, txs) ==
    [c EXCEPT ![1] = [index |-> c[1].index, timestamp |-> ts, transactions |-> txs,
                      previous_hash |-> prev, hash |-> c[1].hash, nonce |-> 0]]

\* C10: is_valid() is a boolean that is true iff every block after the genesis
\* block is linked to its predecessor's hash and carries the hash recomputed from
\* its stored fields; the genesis block's own fields do not influence the result.
C10_IsValidMeaning ==
    /\ is_valid(chain) \in BOOLEAN
    /\ is_valid(chain) <=> \A i \in 2..Len(chain) : BlockIntact(chain, i)
    /\ \A ts \in Timestamps, prev \in {GenesisHash, <<"X">>},
         txs \in TamperValues("transactions") :
           is_valid(WithGenesis(chain, ts, prev, txs)) = is_valid(chain)

\* the genesis timestamp was changed under a committed block: still valid
C10_Witness ==
    /\ JustTampered(1, "timestamp")
    /\ chain[1].hash # calculate_block_hash(chain[1].index, chain[1].timestamp,
                           chain[1].transactions, chain[1].previous_hash, chain[1].nonce)
    /\ is_valid(chain)

\* the hash block i of chain c should carry: the hash of its stored fields
Recomputed(c, i) ==
    calculate_block_hash(c[i].index, c[i].timestamp, c[i].transactions,
                         c[i].previous_hash, c[i].nonce)

\* a caller has just stored a nonce and its hash in the block at chain position i
JustForged(i) == ev.op = "forge" /\ ev.idx = i

\* C11 as stated: is_valid() accepts the chain only if every block after the
\* genesis block stores the hash recomputed from its fields AND that hash begins
\* with `difficulty` zero characters.
C11_ProofOfWorkRechecked ==
    is_valid(chain) =>
        \A i \in 2..Len(chain) :
            /\ chain[i].hash = Recomputed(chain, i)
            /\ StartsWith(chain[i].hash, Repeat0(difficulty))

\* C11 amended: is_valid() accepts the chain only if every block after the genesis
\* block stores the hash recomputed from its stored fields and nonce; the prefix
\* of the hash is not examined: a nonce stored in the last block together with
\* its hash is accepted whatever the hash begins with.
C11_HashNonceConsistencyRechecked ==
    /\ is_valid(chain) => \A i \in 2..Len(chain) : chain[i].hash = Recomputed(chain, i)
    /\ JustForged(Len(chain)) => is_valid(chain)

\* the last block stores a nonce whose hash misses the target, and is accepted
C11_Witness ==
    /\ Len(chain) >= 2
    /\ JustForged(Len(chain))
    /\ chain[Len(chain)].hash = Recomputed(chain, Len(chain))
    /\ ~StartsWith(chain[Len(chain)].hash, Repeat0(difficulty))
    /\ is_valid(chain)

\* Block::new has returned
Mined == call.op = "Block::new" /\ call.pc = "done"

\* the hash of the block being mined with nonce n in place of its own
HashWithNonce(block, n) ==
    calculate_block_hash(block.index, block.timestamp, block.transactions,
                         block.previous_hash, n)

\* C12 as stated: the hash of a block returned by Block::new starts with exactly
\* `difficulty` '0' characters (the next character is not '0'), and is the hash
\* recomputed from the stored index, timestamp, transactions, previous_hash, nonce.
C12_ExactlyDifficultyZeros ==
    Mined =>
        /\ StartsWith(call.block.hash, Repeat0(call.difficulty))
        /\ ~StartsWith(call.block.hash, Repeat0(call.difficulty + 1))
        /\ call.block.hash = HashWithNonce(call.block, call.block.nonce)

\* C12 amended: the hash of a block returned by Block::new starts with at least
\* `difficulty` '0' characters, and is the hash recomputed from the stored index,
\* timestamp, transactions, previous_hash and nonce.
C12_AtLeastDifficultyZeros ==
    Mined =>
        /\ StartsWith(call.block.hash, Repeat0(call.difficulty))
        /\ call.block.hash = HashWithNonce(call.block, call.block.nonce)

\* a block with transactions was mined at difficulty 1 after several attempts
C12_Witness ==
    /\ Mined
    /\ call.difficulty = 1 /\ call.block.nonce > 0
    /\ Len(call.block.transactions) = 2
    /\ StartsWith(call.block.hash, <<"0">>)

\* some nonce of the counter's range gives the block a hash starting with the target
MineSolvable ==
    \E n \in 0..NonceMax :
        StartsWith(HashWithNonce(call.block, n), Repeat0(call.difficulty))

\* C13 as stated: for every difficulty and every block content, Block::new
\* eventually returns a mined block.
C13_MiningAlwaysReturns == <>Mined

\* C13 amended: Block::new returns a mined block if and only if some nonce of the
\* counter's range gives a hash that starts with `difficulty` zero characters; it
\* then returns without an error.  Otherwise (always when difficulty exceeds the
\* length of the hash string) it never returns a block.
C13_ReturnsIffSolvable ==
    /\ [](MineSolvable => <>Mined)
    /\ [](~MineSolvable => ~Mined)

\* mining returned after the nonce had to be advanced at least twice
C13_Witness ==
    /\ Mined
    /\ MineSolvable
    /\ call.block.nonce >= 2
    /\ call.block.transactions = <<>>

\* the checks of the transaction validation, numbered as the claim numbers them
FailsCheck(k, tx, temp) ==
    CASE k = 1 -> tx.sender = <<>> \/ tx.receiver = <<>>
      [] k = 2 -> tx.sender = tx.receiver
      [] k = 3 -> tx.amount = 0
      [] k = 4 -> Balance(temp, tx.receiver) + tx.amount > U64Max
      [] k = 5 -> tx.sender \notin DOMAIN temp
      [] k = 6 -> Balance(temp, tx.sender) < tx.amount

\* the failure the k-th check reports
FailureOf(k, tx, temp) ==
    CASE k = 1 -> [res |-> "AddressCannotBeEmpty", detail |-> <<>>]
      [] k = 2 -> [res |-> "SenderAndReceiverCannotBeTheSame", detail |-> <<>>]
      [] k = 3 -> [res |-> "AmountMustBeGreaterThanZero", detail |-> <<>>]
      [] k = 4 -> [res |-> "BalanceOverflow", detail |-> <<>>]
      [] k = 5 -> [res |-> "SenderDoesNotExist", detail |-> [sender |-> tx.sender]]
      [] k = 6 -> [res |-> "InsufficientBalance",
                   detail |-> [sender |-> tx.sender, requested |-> tx.amount,
                               available |-> Balance(temp, tx.sender)]]

Validated == call.op = "validate" /\ call.pc = "returned"

\* C14: the validation reports the failure of the first of the six checks, in the
\* claim's order, that the transaction fails, with that failure's fields, and
\* accepts a transaction that fails none.
C14_FirstFailingCheck ==
    Validated =>
        LET failing == {k \in 1..6 : FailsCheck(k, call.tx, call.temp)}
        IN  /\ failing = {} => call.out.res = "Ok"
            /\ failing # {} =>
                  \E k \in failing :
                      /\ \A j \in failing : k <= j
                      /\ call.out.res = FailureOf(k, call.tx, call.temp).res
                      /\ call.out.detail = FailureOf(k, call.tx, call.temp).detail

\* a transfer that overflows the receiver, from a sender without entry, was
\* reported as BalanceOverflow
C14_Witness ==
    /\ Validated
    /\ FailsCheck(4, call.tx, call.temp) /\ FailsCheck(5, call.tx, call.temp)
    /\ ~FailsCheck(1, call.tx, call.temp) /\ ~FailsCheck(2, call.tx, call.temp)
    /\ call.out.res = "BalanceOverflow"

\* crediting tx to its receiver's balance in m leaves the u64 range
OverflowsReceiver(tx, m) == Balance(m, tx.receiver) + tx.amount > U64Max

\* tx passes the checks that come before the overflow check
WellFormed(tx) ==
    /\ tx.sender # <<>> /\ tx.receiver # <<>>
    /\ tx.sender # tx.receiver
    /\ tx.amount > 0

\* C15: a well-formed transaction whose amount added to the receiver's balance
\* exceeds u64::MAX is rejected with BalanceOverflow; when it is alone in the
\* mempool, add_block accepts nothing, creates no block, leaves every balance
\* (sender's and receiver's included) as it was, empties the mempool and leaves
\* the chain valid.
C15_OverflowRejected ==
    [][AddBlockStep /\ Len(mempool) = 1 /\ WellFormed(mempool[1])
          /\ OverflowsReceiver(mempool[1], accounts) =>
         /\ validate_transaction_with_temp_balances(mempool[1], accounts).res
               = "BalanceOverflow"
         /\ ev'.batch = <<>>
         /\ chain' = chain
         /\ accounts' = accounts
         /\ mempool' = <<>>
         /\ is_valid(chain')]_vars

\* the sender could pay, the receiver's balance would have wrapped: no block
C15_Witness ==
    /\ ev.op = "add_block" /\ ev.outcome = "no_block"
    /\ Len(ev.pool) = 1
    /\ OverflowsReceiver(ev.pool[1], accounts)
    /\ Balance(accounts, ev.pool[1].sender) >= ev.pool[1].amount
    /\ Balance(accounts, ev.pool[1].receiver) = U64Max
    /\ mempool = <<>> /\ is_valid(chain)

\* Blockchain::new has returned
Constructed == call.op = "Blockchain::new" /\ call.pc = "returned"

\* C16: Blockchain::new returns Err("ERR_TOTAL_SUPPLY_LESS_THAN_PRE_MINED") and
\* constructs no ledger exactly when genesis_pre_mined > total_supply; otherwise,
\* equality included, it returns a ledger.
C16_ErrorIffPreMinedExceedsSupply ==
    Constructed =>
        IF call.config.genesis_pre_mined > call.config.total_supply
          THEN /\ ~call.result.ok
               /\ call.result.err = "ERR_TOTAL_SUPPLY_LESS_THAN_PRE_MINED"
               /\ chain = <<>> /\ accounts = <<>>
          ELSE /\ call.result.ok
               /\ Len(chain) = 1

\* the whole supply is pre-mined: accepted
C16_Witness ==
    /\ Constructed
    /\ call.config.genesis_pre_mined = call.config.total_supply
    /\ call.config.total_supply = U64Max
    /\ call.result.ok

\* C17: a constructed ledger has a chain of exactly the genesis block (index 0, no
\* transactions, previous_hash the configured genesis_hash), accounts with
\* exactly one entry, genesis_miner |-> genesis_pre_mined, an empty mempool and
\* the configured difficulty.
C17_InitialLedger ==
    Constructed /\ call.result.ok =>
        /\ Len(chain) = 1
        /\ chain[1].index = 0
        /\ chain[1].transactions = <<>>
        /\ chain[1].previous_hash = call.config.genesis_hash
        /\ DOMAIN accounts = {call.config.genesis_miner}
        /\ accounts[call.config.genesis_miner] = call.config.genesis_pre_mined
        /\ mempool = <<>>
        /\ difficulty = call.config.difficulty

C17_Witness ==
    /\ Constructed /\ call.result.ok
    /\ call.config.genesis_miner = <<"B">> /\ call.config.genesis_hash = <<"X">>
    /\ call.config.difficulty = 1
    /\ accounts = (<<"B">> :> 1)
    /\ chain[1].previous_hash = <<"X">>

\* C18: in every state reached by add_block calls, rolled back ones included, the
\* block at chain position i (counted from 0) has index i.
C18_IndexIsPosition ==
    \A i \in 1..Len(chain) : chain[i].index = i - 1

\* an add_block was rolled back on a chain of genesis and one block
C18_Witness ==
    /\ ev.op = "add_block" /\ ev.outcome = "rolled_back"
    /\ tampered
    /\ Len(chain) = 2
    /\ chain[1].index = 0 /\ chain[2].index = 1

\* addresses a history is asked for; the last one occurs in no transaction
HistoryAddresses == {<<"A">>, <<"B">>, <<"C">>, <<"A", "B">>, <<"X">>}

\* all transactions stored in chain c, by block position, then position in the block
RECURSIVE Flatten(_)
Flatten(c) == IF c = <<>> THEN <<>> ELSE Head(c).transactions \o Flatten(Tail(c))

\* the elements of seq with sender or receiver a, in the order of seq
Involving(seq, a) == SelectSeq(seq, LAMBDA tx : tx.sender = a \/ tx.receiver = a)

\* the batch the step committed to the chain, none when it created no block or
\* rolled back
CommittedByStep == IF ev'.outcome = "committed" THEN ev'.batch ELSE <<>>

\* C19: get_transaction_history(address) is the sequence of the stored
\* transactions with that sender or receiver, with their multiplicity, in chain
\* order and in-block order; an add_block call extends each address's history by
\* exactly the transactions it committed, so rejected and rolled-back
\* transactions never appear in it.
C19_HistoryIsFilteredChain ==
    /\ [](\A a \in HistoryAddresses :
            get_transaction_history(chain, a) = Involving(Flatten(chain), a))
    /\ [][AddBlockStep =>
            \A a \in HistoryAddresses :
                get_transaction_history(chain', a)
                  = get_transaction_history(chain, a) \o Involving(CommittedByStep, a)]_vars

\* B received in one block and sent in the next; a later transfer of B was
\* rolled back and is not in B's history
C19_Witness ==
    /\ ev.op = "add_block" /\ ev.outcome = "rolled_back"
    /\ Len(ev.batch) = 1 /\ ev.batch[1].sender = <<"B">>
    /\ Len(chain) = 3
    /\ Len(get_transaction_history(chain, <<"B">>)) = 2
    /\ get_transaction_history(chain, <<"B">>)[1].receiver = <<"B">>
    /\ get_transaction_history(chain, <<"B">>)[2].sender = <<"B">>

\* Token::new was called and is over, with a token or with a panic
TokenCallOver == call.op = "Token" /\ call.pc # "called"

\* C21: Token::new computes smallest_unit = 10^decimals, and when 10^decimals
\* does not fit the unsigned 64-bit integer it fails instead of returning a token
\* whose smallest_unit is wrapped or otherwise wrong.
C21_OverflowFails ==
    TokenCallOver =>
        IF Pow10(call.decimals) > TokenU64Max
          THEN call.pc = "panic"
          ELSE call.pc # "panic" /\ call.tok.smallest_unit = Pow10(call.decimals)

\* the value of a string of decimal digits
RECURSIVE ParseDec(_)
ParseDec(s) ==
    IF s = <<>> THEN 0
    ELSE 10 * ParseDec(SubSeq(s, 1, Len(s) - 1)) + (Code(s[Len(s)]) - 1)

\* the positions of the dots of s, the text before position i and the text after it
Dots(s) == {i \in 1..Len(s) : s[i] = "."}
Before(s, i) == SubSeq(s, 1, i - 1)
After(s, i) == SubSeq(s, i + 1, Len(s))

\* format_amount was called and is over
FormatOver == call.op = "Token" /\ call.pc \in {"formatted", "format_panic"}

\* text is whole "." fractional with whole = amount div unit in decimal and
\* fractional = amount mod unit in exactly digits digits
IsFormatOf(text, amount, unit, digits) ==
    \E i \in Dots(text) :
        /\ Dots(text) = {i}
        /\ Before(text, i) = Dec(amount \div unit)
        /\ Len(After(text, i)) = digits
        /\ ParseDec(After(text, i)) = amount % unit
        /\ ParseDec(Before(text, i)) * unit + ParseDec(After(text, i)) = amount

\* C22 as stated: for every token, decimals 0 included, and every amount,
\* format_amount returns amount div smallest_unit, a dot, and amount mod
\* smallest_unit in exactly `decimals` digits.
C22_ExactlyDecimalsDigits ==
    FormatOver =>
        /\ call.pc = "formatted"
        /\ IsFormatOf(call.out, call.amount, call.tok.smallest_unit, call.tok.decimals)

\* C22 amended: for a token whose smallest_unit is not 0, format_amount returns
\* amount div smallest_unit, a dot, and amount mod smallest_unit padded with zeros
\* to exactly `decimals` digits when decimals >= 1, and the single digit 0 when
\* decimals = 0; for a smallest_unit of 0 the call panics.
C22_PaddedToDecimalsOrOneDigit ==
    FormatOver =>
        IF call.tok.smallest_unit = 0
          THEN call.pc = "format_panic"
          ELSE /\ call.pc = "formatted"
               /\ IsFormatOf(call.out, call.amount, call.tok.smallest_unit,
                             IF call.tok.decimals = 0 THEN 1 ELSE call.tok.decimals)
               /\ call.tok.decimals = 0 => After(call.out, Len(call.out) - 1) = <<"0">>

\* 105 units of a token with two decimals: the fractional part needed a zero
C22_Witness ==
    /\ FormatOver /\ call.pc = "formatted"
    /\ call.tok.decimals = 2 /\ call.tok.smallest_unit = 100
    /\ call.amount = 105
    /\ call.out = <<"1", ".", "0", "5">>


\* C23: when add_block appends a block, that block has the index of the previous
\* last block plus 1, the previous last block's hash as previous_hash, and as
\* transactions the accepted batch: the same transactions, in the order in which
\* the mempool pass accepted them.
C23_AppendedBlockShape ==
    [][AddBlockStep /\ Len(chain') > Len(chain) =>
         /\ LastBlock(chain').index = LastBlock(chain).index + 1
         /\ LastBlock(chain').previous_hash = LastBlock(chain).hash
         /\ LastBlock(chain').transactions = ev'.batch
         /\ ev'.batch = GreedyBatch(accounts, mempool)]_vars

\* a block holding two different transactions in submission order
C23_Witness ==
    /\ ev.op = "add_block" /\ ev.outcome = "committed"
    /\ Len(chain) = 2
    /\ LastBlock(chain).index = 1
    /\ LastBlock(chain).previous_hash = chain[1].hash
    /\ Len(ev.batch) = 2 /\ ev.batch[1] # ev.batch[2]
    /\ LastBlock(chain).transactions = ev.pool


\* C24: if is_valid() holds before add_block and at least one transaction of the
\* mempool validates, add_block does not roll back: it appends exactly one block
\* and commits the accepted batch to the accounts.
C24_ValidChainProgresses ==
    [][AddBlockStep /\ is_valid(chain) /\ GreedyBatch(accounts, mempool) # <<>> =>
         /\ ev'.outcome = "committed"
         /\ Appended
         /\ ev'.batch # <<>>
         /\ accounts' = TransferAll(accounts, ev'.batch)]_vars

\* a block committed on a chain of two blocks, one of which had been overwritten
\* and made consistent again
C24_Witness ==
    /\ ev.op = "add_block" /\ ev.outcome = "committed"
    /\ Len(chain) = 3 /\ tampered
    /\ is_valid(SubSeq(chain, 1, 2))
    /\ ev.batch # <<>>


\* the addresses named by the committed accounts or by a transaction of pool
PassAddresses(accts, pool) ==
    DOMAIN accts \cup {pool[i].sender : i \in 1..Len(pool)}
                 \cup {pool[i].receiver : i \in 1..Len(pool)}

\* the state of the mempool pass of the step before it validates mempool[k]
BeforeTx(k) == process_loop(SubSeq(mempool, 1, k - 1), <<>>, accounts)

\* C25: funds credited by a transaction accepted earlier in a mempool pass are
\* spendable later in the same pass: each transaction is validated against the
\* committed balances with the debits and the credits of all transactions accepted
\* before it applied (so an account without committed entry can send what it
\* received in the same batch), and a successful validation lowers the sender's
\* projected balance and raises the receiver's by exactly the amount, leaving the
\* other balances as they were.
C25_CreditsSpendableInPass ==
    [][AddBlockStep =>
         \A k \in 1..Len(mempool) :
             \E before \in {BeforeTx(k)} :
             \E v \in {validate_transaction_with_temp_balances(mempool[k], before.temp)} :
                 /\ \A a \in PassAddresses(accounts, mempool) :
                        Balance(before.temp, a)
                            = Balance(TransferAll(accounts, before.valid), a)
                 /\ v.res = "Ok" <=>
                        Admissible(mempool[k], TransferAll(accounts, before.valid))
                 /\ v.res = "Ok" =>
                        \A a \in PassAddresses(accounts, mempool) :
                            Balance(v.temp, a) = Balance(Transfer(before.temp, mempool[k]), a)
                 /\ k = Len(mempool) =>
                        ev'.batch = IF v.res = "Ok" THEN Append(before.valid, mempool[k])
                                    ELSE before.valid]_vars

\* B, without entry in the committed accounts of the new ledger, received 2 and
\* sent 1 of them in the same batch
C25_Witness ==
    /\ ev.op = "add_block" /\ ev.outcome = "committed"
    /\ Len(chain) = 2
    /\ ev.batch = <<Transaction(<<"A">>, <<"B">>, 2), Transaction(<<"B">>, <<"C">>, 1)>>
    /\ accounts[<<"B">>] = 1 /\ accounts[<<"C">>] = 1


\* the accounts Blockchain::new creates from config, with every transaction stored
\* in chain c applied: received amounts added, sent amounts subtracted
Replay(config, c) ==
    TransferAll(config.genesis_miner :> config.genesis_pre_mined, Flatten(c))

\* C26: the committed balances are always the replay of the chain: each account's
\* balance is its initial balance (genesis_pre_mined for the genesis miner, 0
\* otherwise) plus the amounts of the chain transactions it receives minus the
\* amounts of the chain transactions it sends, and only addresses with a stored
\* transaction or the genesis miner have an entry.
C26_BalancesReplayChain ==
    \E config \in Configs :
        /\ Blockchain_new(config, StartTime).ok
        /\ token.total_supply = config.total_supply
        /\ DOMAIN accounts = DOMAIN Replay(config, chain)
        /\ \A a \in DOMAIN accounts : accounts[a] = Replay(config, chain)[a]

\* two blocks with three transactions in all; C received in both
C26_Witness ==
    /\ ev.op = "add_block" /\ ev.outcome = "committed"
    /\ Len(chain) = 3 /\ Len(Flatten(chain)) = 3
    /\ accounts = (<<"A">> :> 1) @@ (<<"B">> :> 0) @@ (<<"C">> :> 2)


\* the senders and receivers of the transactions txs
Touched(txs) ==
    {txs[i].sender : i \in 1..Len(txs)} \cup {txs[i].receiver : i \in 1..Len(txs)}

\* C27: committing the batch process_mempool accepted never underflows nor
\* overflows: at every step of execute_transactions the sender's committed balance
\* is at least the amount and the receiver's committed balance plus the amount
\* fits in the integer width, and the balances execute_transactions leaves are the
\* final values of the temporary projection for every account an accepted
\* transaction touches.
C27_CommitWithinRange ==
    [][AddBlockStep =>
         /\ \A k \in 1..Len(ev'.batch) :
                \E m \in {execute_transactions(accounts, SubSeq(ev'.batch, 1, k - 1))} :
                    /\ Balance(m, ev'.batch[k].sender) >= ev'.batch[k].amount
                    /\ Balance(m, ev'.batch[k].receiver) + ev'.batch[k].amount <= U64Max
         /\ ev'.outcome # "panic"
         /\ \A a \in Touched(ev'.batch) :
                /\ a \in DOMAIN process_loop(mempool, <<>>, accounts).temp
                /\ execute_transactions(accounts, ev'.batch)[a]
                      = process_loop(mempool, <<>>, accounts).temp[a]
                /\ ev'.outcome = "committed" =>
                      accounts'[a] = process_loop(mempool, <<>>, accounts).temp[a]]_vars

\* a batch of two transfers brought the balance of C from U64Max - 1 to U64Max
C27_Witness ==
    /\ ev.op = "add_block" /\ ev.outcome = "committed"
    /\ ev.batch = <<Transaction(<<"A">>, <<"B">>, 2), Transaction(<<"B">>, <<"C">>, 1)>>
    /\ accounts[<<"C">>] = U64Max
    /\ accounts[<<"B">>] = 1


\* C28: add_block conserves value: the sum of all committed balances after an
\* add_block call is the sum before it, whatever the outcome (no block, commit,
\* rollback), and no account entry is removed.
C28_ValueConserved ==
    [][AddBlockStep =>
         /\ SumBalances(accounts') = SumBalances(accounts)
         /\ DOMAIN accounts \subseteq DOMAIN accounts']_vars

\* a commit that moved funds between three accounts, on a ledger that also went
\* through an overwritten block
C28_Witness ==
    /\ ev.op = "add_block" /\ ev.outcome = "committed"
    /\ Len(ev.batch) = 2 /\ tampered
    /\ Cardinality(DOMAIN accounts) = 3
    /\ SumBalances(accounts) = 3


\* C29: a rejected transaction leaves the temporary projection as it was, its set
\* of known accounts included: when the validation returns an error of any kind,
\* temp_balances has the same entries with the same values as before the call.
C29_RejectedLeavesProjection ==
    Validated /\ call.out.res # "Ok" => call.out.temp = call.temp

\* C30: within a mempool pass, a well-formed transaction with a non-overflowing
\* amount whose sender has no committed entry and was credited by no transaction
\* accepted earlier in the pass is rejected with SenderDoesNotExist naming that
\* sender, whatever rejected transactions came before it in the pass.
C30_UnknownSenderReported ==
    [][AddBlockStep =>
         \A k \in 1..Len(mempool) :
             \E before \in {BeforeTx(k)} :
                 /\ WellFormed(mempool[k])
                 /\ ~OverflowsReceiver(mempool[k], before.temp)
                 /\ mempool[k].sender \notin DOMAIN accounts
                 /\ \A j \in 1..Len(before.valid) :
                        before.valid[j].receiver # mempool[k].sender
                 => /\ validate_transaction_with_temp_balances(mempool[k], before.temp).res
                          = "SenderDoesNotExist"
                    /\ validate_transaction_with_temp_balances(mempool[k], before.temp).detail
                          = [sender |-> mempool[k].sender]]_vars


\* C31: in every state reachable by add_block, the genesis block holds no
\* transactions and every other block holds at least one, and every stored
\* transaction has a non-empty sender, a non-empty receiver different from the
\* sender, and an amount greater than zero.
C31_StoredTransactionsWellFormed ==
    /\ chain[1].transactions = <<>>
    /\ \A i \in 2..Len(chain) :
          /\ chain[i].transactions # <<>>
          /\ \A k \in 1..Len(chain[i].transactions) :
                /\ chain[i].transactions[k].sender # <<>>
                /\ chain[i].transactions[k].receiver # <<>>
                /\ chain[i].transactions[k].receiver # chain[i].transactions[k].sender
                /\ chain[i].transactions[k].amount > 0

\* a second block was committed from a mempool that also held a transaction of
\* amount 0
C31_Witness ==
    /\ ev.op = "add_block" /\ ev.outcome = "committed"
    /\ Len(chain) = 3
    /\ Len(ev.pool) = 2 /\ Len(ev.batch) = 1
    /\ \E k \in 1..2 : ev.pool[k].amount = 0


\* C32: an invalid chain stays invalid and frozen: if is_valid() is false before
\* add_block, the call, whatever the mempool holds, leaves the chain and the
\* accounts unchanged, empties the mempool, commits nothing, and is_valid() is
\* still false after it; so a rollback never repairs the chain, and the same holds
\* for every later call.
C32_InvalidChainFrozen ==
    [][AddBlockStep /\ ~is_valid(chain) =>
         /\ chain' = chain
         /\ accounts' = accounts
         /\ mempool' = <<>>
         /\ ev'.outcome \in {"no_block", "rolled_back"}
         /\ ~is_valid(chain')]_vars

\* add_block rolled back a batch of two affordable transfers on a chain whose
\* second block does not carry the hash of its fields
C32_Witness ==
    /\ ev.op = "add_block" /\ ev.outcome = "rolled_back"
    /\ Len(ev.batch) = 2
    /\ Len(chain) = 2 /\ ~is_valid(chain)
    /\ chain[2].previous_hash = chain[1].hash
    /\ mempool = <<>>


\* C33: Block::new searches the nonces from 0 upward and returns the least nonce
\* whose hash meets the target: no nonce smaller than the stored one gives, with
\* the same index, timestamp, transactions and previous_hash, a hash starting
\* with `difficulty` zeros; with difficulty 0 the stored nonce is 0.
C33_LeastNonce ==
    Mined =>
        /\ StartsWith(HashWithNonce(call.block, call.block.nonce),
                      Repeat0(call.difficulty))
        /\ \A n \in 0..(call.block.nonce - 1) :
              ~StartsWith(HashWithNonce(call.block, n), Repeat0(call.difficulty))
        /\ call.difficulty = 0 => call.block.nonce = 0

\* the search passed at least three nonces before it returned
C33_Witness ==
    /\ Mined
    /\ call.difficulty = 1 /\ call.block.nonce >= 3
    /\ Len(call.block.transactions) = 1
    /\ \A n \in 0..(call.block.nonce - 1) :
          ~StartsWith(HashWithNonce(call.block, n), <<"0">>)


\* Block::new is running or has returned
InBlockNew == call.op = "Block::new" /\ call.pc \in {"mining", "done"}

\* C34: mining changes only nonce and hash: the block of Block::new carries, at
\* every iteration and when it is returned, the index, the transactions (same
\* elements, same order) and the previous_hash it was given; its timestamp is
\* the one clock reading taken before the search, and every hash attempt is taken
\* over these values and the current nonce.
C34_MiningFrame ==
    InBlockNew =>
        /\ call.block.index = call.args.index
        /\ call.block.transactions = call.args.transactions
        /\ call.block.previous_hash = call.args.previous_hash
        /\ call.block.timestamp = call.args.now
        /\ call.block.hash =
              calculate_block_hash(call.args.index, call.args.now, call.args.transactions,
                                   call.args.previous_hash, call.block.nonce)

\* a block of two transactions, created at the first clock reading, was returned
\* after several attempts
C34_Witness ==
    /\ Mined
    /\ call.block.nonce >= 2
    /\ call.args.now = StartTime
    /\ Len(call.args.transactions) = 2
    /\ call.block.transactions[1] # call.block.transactions[2]


\* calculate_block_hash has returned for both tuples of fields
Hashed == call.op = "calculate_block_hash" /\ call.pc = "returned"

\* the fields in which the two tuples differ
DifferingFields ==
    {f \in {"index", "timestamp", "transactions", "previous_hash", "nonce"} :
        call.a[f] # call.b[f]}

\* C35 as stated: two tuples (index, timestamp, transactions, previous_hash,
\* nonce) that differ in at least one field give different strings to SHA-256.
C35_DifferentFieldsDifferentInput ==
    Hashed /\ DifferingFields # {} => call.input_a # call.input_b

\* C35 amended: two tuples that differ in exactly one of index, timestamp,
\* previous_hash and nonce give different strings to SHA-256; two tuples that
\* differ in their transaction lists only give different strings iff the
\* concatenations of the transactions' canonical strings differ; equal strings
\* give equal hashes.
C35_SingleFieldDifferentInput ==
    Hashed =>
        /\ Cardinality(DifferingFields) = 1 /\ DifferingFields # {"transactions"}
              => call.input_a # call.input_b
        /\ DifferingFields = {"transactions"}
              => (call.input_a # call.input_b
                    <=> transactions_string(call.a.transactions)
                          # transactions_string(call.b.transactions))
        /\ call.input_a = call.input_b => call.hash_a = call.hash_b

\* two blocks of two transactions each that differ in the nonce only
C35_Witness ==
    /\ Hashed
    /\ DifferingFields = {"nonce"}
    /\ Len(call.a.transactions) = 2
    /\ call.input_a # call.input_b
    /\ call.hash_a # call.hash_b

\* the number of decimal digits of n
RECURSIVE DecLen(_)
DecLen(n) == IF n < 10 THEN 1 ELSE 1 + DecLen(n \div 10)

\* s is the decimal representation of n
IsDecimalOf(s, n) ==
    /\ Len(s) = DecLen(n)
    /\ \A i \in 1..Len(s) : Code(s[i]) <= 10
    /\ ParseDec(s) = n

\* the part of s of length len that starts after the first skip characters
Part(s, skip, len) == SubSeq(s, skip + 1, skip + len)

\* the length of sender, receiver and decimal amount of tx
CanonicalLen(tx) == Len(tx.sender) + Len(tx.receiver) + DecLen(tx.amount)

\* s is sender, receiver and decimal amount of the transactions txs, one
\* transaction after the other, and nothing else
RECURSIVE IsCanonicalOf(_, _)
IsCanonicalOf(s, txs) ==
    IF txs = <<>> THEN s = <<>>
    ELSE /\ Len(s) >= CanonicalLen(Head(txs))
         /\ Part(s, 0, Len(Head(txs).sender)) = Head(txs).sender
         /\ Part(s, Len(Head(txs).sender), Len(Head(txs).receiver)) = Head(txs).receiver
         /\ IsDecimalOf(Part(s, Len(Head(txs).sender) + Len(Head(txs).receiver),
                             DecLen(Head(txs).amount)),
                        Head(txs).amount)
         /\ IsCanonicalOf(SubSeq(s, CanonicalLen(Head(txs)) + 1, Len(s)), Tail(txs))

\* s is decimal index, timestamp, canonical strings of the transactions,
\* previous_hash and decimal nonce of the tuple t, in this order, and nothing else
IsHashInputOf(s, t) ==
    \E li \in {DecLen(t.index)}, ln \in {DecLen(t.nonce)},
       lx \in {Len(s) - DecLen(t.index) - Len(t.timestamp) - Len(t.previous_hash)
                  - DecLen(t.nonce)} :
        /\ lx >= 0
        /\ IsDecimalOf(Part(s, 0, li), t.index)
        /\ Part(s, li, Len(t.timestamp)) = t.timestamp
        /\ IsCanonicalOf(Part(s, li + Len(t.timestamp), lx), t.transactions)
        /\ Part(s, li + Len(t.timestamp) + lx, Len(t.previous_hash)) = t.previous_hash
        /\ IsDecimalOf(Part(s, li + Len(t.timestamp) + lx + Len(t.previous_hash), ln),
                       t.nonce)

\* C36: the hash input is the decimal index, then the timestamp, then the
\* canonical strings of all transactions in block order, then previous_hash, then
\* the decimal nonce, with no separators; a transaction's canonical string is its
\* sender, its receiver and its decimal amount; the string of an empty list of
\* transactions is empty.
C36_HashInputLayout ==
    Hashed =>
        /\ IsHashInputOf(call.input_a, call.a)
        /\ IsHashInputOf(call.input_b, call.b)
        /\ call.a.transactions = <<>> =>
              Len(call.input_a) = DecLen(call.a.index) + Len(call.a.timestamp)
                                    + Len(call.a.previous_hash) + DecLen(call.a.nonce)

\* index 11, timestamp 1T, the transfers B->C 1 and A->B 1, previous hash 0X and
\* nonce 10 gave 111TBC1AB10X10
C36_Witness ==
    /\ Hashed
    /\ call.a.index = 11 /\ call.a.nonce = 10
    /\ Len(call.a.transactions) = 2
    /\ call.a.transactions[1].sender = <<"B">>
    /\ call.input_a = <<"1", "1", "1", "T", "B", "C", "1", "A", "B", "1", "0", "X", "1", "0">>


\* the second call of mine has returned
Remined == call.op = "mine" /\ call.pc = "done"

\* some nonce after the one the block had, within the counter's range, gives a
\* hash that starts with the target
NextSolvable ==
    \E n \in (call.start.nonce + 1)..NonceMax :
        StartsWith(HashWithNonce(call.block, n), Repeat0(call.difficulty))

\* C37 as stated: mine called on a block whose hash field does not meet the target
\* ends, with a nonce at least one above the one the block had and a hash that
\* meets the target and differs from the hash the block had at the earlier nonce.
C37_RemineAdvancesNonce ==
    /\ <>Remined
    /\ [](Remined =>
            /\ call.block.nonce >= call.start.nonce + 1
            /\ StartsWith(call.block.hash, Repeat0(call.difficulty))
            /\ call.block.hash # call.start.hash)

\* C37 amended: if some nonce above the block's current one, within the range of
\* the counter, gives a hash that meets the target, mine ends at the least such
\* nonce: the nonce has grown by at least one, the search has not restarted from
\* 0, and the hash it ends with is the hash at that nonce, meets the target and
\* differs from the hash at the earlier nonce.  If there is none, mine does not
\* end with a larger nonce: it runs into the overflow of the counter, and where
\* that wraps it can only end at a nonce not above the earlier one.
C37_AdvancesToNextSolution ==
    /\ [](call.op = "mine" /\ NextSolvable => <>Remined)
    /\ [](Remined /\ NextSolvable =>
            /\ call.block.nonce >= call.start.nonce + 1
            /\ \A n \in (call.start.nonce + 1)..(call.block.nonce - 1) :
                  ~StartsWith(HashWithNonce(call.block, n), Repeat0(call.difficulty))
            /\ call.block.hash = HashWithNonce(call.block, call.block.nonce)
            /\ StartsWith(call.block.hash, Repeat0(call.difficulty))
            /\ call.block.hash # call.start.hash)
    /\ [](Remined /\ ~NextSolvable => call.block.nonce <= call.start.nonce)

\* a mined block whose hash was cleared was mined again at the same difficulty
\* and got a nonce at least two above the earlier one
C37_Witness ==
    /\ Remined
    /\ call.difficulty = MinedDifficulty
    /\ call.block.nonce >= call.start.nonce + 2
    /\ StartsWith(call.block.hash, Repeat0(call.difficulty))
    /\ call.block.hash # call.start.hash

====
